---- MODULE Spec2Model ----
(***************************************************************************)
(* A model of the LC-3 virtual machine of this repository: the CPU state   *)
(* (CPU.h / CPU.cpp), the memory bus (MemoryIO.cpp), the instruction       *)
(* handlers (ArithmeticLogicUnit.cpp), the trap services (Trap.cpp), the   *)
(* console holder (OS.cpp) and the engine (VirtualMachine.cpp).            *)
(*                                                                         *)
(* Words are 16 bits wide: every store into a uint16_t is reduced modulo   *)
(* 2^16.  Memory and the general registers are not initialised by the      *)
(* constructor, so a cell that was never written holds an arbitrary value: *)
(* the model keeps only the cells whose value is known (`memory` is a      *)
(* function on the addresses determined so far) and draws the value of any *)
(* other cell from JunkWords the first time it is read.                    *)
(***************************************************************************)
EXTENDS Integers, Sequences, FiniteSets, TLC

----------------------------------------------------------------------------
(* Program constants *)

MEMORY_MAX == 65536
REGISTER_COUNT == 10

FL_POSITIVE == 1
FL_ZERO == 2
FL_NEGATIVE == 4

R_0 == 0
R_7 == 7
R_PC == 8
R_COND == 9

PC_START == \h3000

MR_KBSR == \hFE00
MR_KBDR == \hFE02

OP_BR == 0
OP_ADD == 1
OP_LD == 2
OP_ST == 3
OP_JSR == 4
OP_AND == 5
OP_LDR == 6
OP_STR == 7
OP_RTI == 8
OP_NOT == 9
OP_LDI == 10
OP_STI == 11
OP_JMP == 12
OP_RES == 13
OP_LEA == 14
OP_TRAP == 15

TRAP_GETC == \h20
TRAP_OUT == \h21
TRAP_PUTS == \h22
TRAP_IN == \h23
TRAP_PUTSP == \h24
TRAP_HALT == \h25

\* getchar() at end of input
EOF == -1

----------------------------------------------------------------------------
(* 16-bit words and the C operators used on them *)

\* a value stored into a uint16_t
U16(x) == x % MEMORY_MAX

RECURSIVE BitAnd(_, _)
BitAnd(a, b) ==
    IF a = 0 \/ b = 0 THEN 0
    ELSE (a % 2) * (b % 2) + 2 * BitAnd(a \div 2, b \div 2)

RECURSIVE BitOr(_, _)
BitOr(a, b) ==
    IF a = 0 THEN b
    ELSE IF b = 0 THEN a
    ELSE (IF a % 2 = 1 \/ b % 2 = 1 THEN 1 ELSE 0) + 2 * BitOr(a \div 2, b \div 2)

Shl(a, n) == a * (2 ^ n)

Shr(a, n) == a \div (2 ^ n)

\* ~x on a uint16_t operand, stored back into a uint16_t
BitNot16(a) == (MEMORY_MAX - 1) - a

----------------------------------------------------------------------------
(* ArithmeticLogicUnit::SignExtend and ArithmeticLogicUnit::Swap16 *)

\* SignExtend testing the bit above the field instead of its sign bit
SignExtendWrongBit(immNumber, immNumberLength) ==
    LET signBit == BitAnd(Shr(immNumber, immNumberLength), 1)
    IN  IF signBit # 0
        THEN U16(BitOr(immNumber, Shl(65535, immNumberLength)))
        ELSE immNumber

SignExtend(immNumber, immNumberLength) ==
    LET signBit == BitAnd(Shr(immNumber, immNumberLength - 1), 1)
    IN  IF signBit # 0
        THEN U16(BitOr(immNumber, Shl(65535, immNumberLength)))
        ELSE immNumber

Swap16(number) == U16(BitOr(Shl(number, 8), Shr(number, 8)))

----------------------------------------------------------------------------
(* State *)

VARIABLES
    registers,  \* CPU::registers, indexed 0 .. 9
    memory,     \* CPU::memory: the cells whose value is determined so far
    running,    \* CPU::running
    input,      \* bytes the host will deliver on standard input
    output,     \* bytes written to standard output
    console,    \* input mode of the host console: the flags that are set
    os,         \* the OS object of main: hStdin, fdwMode, fdwOldMode
    handler,    \* TRUE once signal(SIGINT, ...) was called
    argv,       \* image files named on the command line, not yet loaded
    pc,         \* position in main / RunVirtualMachine
    exitCode,   \* empty while the process runs, then the exit status
    steps,      \* instructions fetched so far
    oob,        \* TRUE once a word outside CPU::memory was accessed
    polls,      \* the reads of KBSR so far that found a key waiting
    last,       \* the instruction fetched last and the machine before its fetch
    call        \* the images read so far; in a component-level specification,
                \* the operation applied last

vars == <<registers, memory, running, input, output, console, os, handler,
          argv, pc, exitCode, steps, oob, polls, last, call>>

\* The part of the state the instruction and trap handlers work on.
Machine(reg, mem, run, inp, out, ob, po) ==
    [registers |-> reg, memory |-> mem, running |-> run, input |-> inp,
     output |-> out, oob |-> ob, polls |-> po]

Cur == Machine(registers, memory, running, input, output, oob, polls)

\* Values an unwritten word of CPU::memory or CPU::registers may hold.  Each is
\* both a datum and an instruction: 0 is BR with nzp = 0 and the string
\* terminator, 65 is 'A', 32768 is RTI and a negative number, 61477 is TRAP
\* HALT, 65024 is a TRAP with an unknown vector and the address of KBSR.
JunkWords == {0, 65, \h8000, \hF025, \hFE00}

MemSet(mem, a, v) ==
    [x \in (DOMAIN mem) \cup {a} |-> IF x = a THEN v ELSE mem[x]]

\* The values memory[a] may hold: the determined one, or any junk word.
CellValues(mem, a) == IF a \in DOMAIN mem THEN {mem[a]} ELSE JunkWords

----------------------------------------------------------------------------
(* CPU::UpdateFlags *)

\* UpdateFlags OR-ing the new flag into R_COND instead of replacing it
UpdateFlagsOrCombined(reg, DR) ==
    [reg EXCEPT ![R_COND] =
        BitOr(@, IF reg[DR] = 0 THEN FL_ZERO
                 ELSE IF Shr(reg[DR], 15) = 1 THEN FL_NEGATIVE
                 ELSE FL_POSITIVE)]

\* UpdateFlags without the test of bit 15
UpdateFlagsNoNegative(reg, DR) ==
    [reg EXCEPT ![R_COND] = IF reg[DR] = 0 THEN FL_ZERO ELSE FL_POSITIVE]

UpdateFlags(reg, DR) ==
    [reg EXCEPT ![R_COND] =
        IF reg[DR] = 0 THEN FL_ZERO
        ELSE IF Shr(reg[DR], 15) = 1 THEN FL_NEGATIVE
        ELSE FL_POSITIVE]

----------------------------------------------------------------------------
(* OS: the console holder *)

ENABLE_ECHO_INPUT == "ENABLE_ECHO_INPUT"
ENABLE_LINE_INPUT == "ENABLE_LINE_INPUT"

\* a ^ b on mode words, as sets of flags
ModeXor(a, b) == (a \ b) \cup (b \ a)

\* the mode word of a DWORD that was never assigned
Unset == {"unset"}

\* OS::OS and the member initialisers of OS.h: fdwMode and fdwOldMode are unset
NewOS == [hStdin |-> "INVALID_HANDLE_VALUE", fdwMode |-> Unset, fdwOldMode |-> Unset]

\* SetConsoleMode fails on a handle that is no console and changes nothing
SetConsoleMode(h, mode, con) ==
    IF h = "STD_INPUT" THEN mode ELSE con

\* OS::DisableInputBuffering: the OS object and the console afterwards.
\* FlushConsoleInputBuffer drops what was typed before; `input` holds what
\* is typed afterwards.
DisableInputBuffering(o, con) ==
    LET old  == con
        mode == ModeXor(ModeXor(old, {ENABLE_ECHO_INPUT}), {ENABLE_LINE_INPUT})
    IN  [os |-> [hStdin |-> "STD_INPUT", fdwMode |-> mode, fdwOldMode |-> old],
         console |-> SetConsoleMode("STD_INPUT", mode, con)]

\* OS::RestoreInputBuffering: the console afterwards
RestoreInputBuffering(o, con) == SetConsoleMode(o.hStdin, o.fdwOldMode, con)

\* OS::CheckKey: a key is waiting
CheckKey(inp) == Len(inp) > 0

\* getchar(): the value returned and the rest of the input
GetChar(inp) ==
    IF Len(inp) > 0 THEN [c |-> Head(inp), rest |-> Tail(inp)]
    ELSE [c |-> EOF, rest |-> inp]

----------------------------------------------------------------------------
(* MemoryIO *)

\* Read without the else branch that clears KBSR when no key is waiting
ReadKeepsStatus(m, memoryAddress) ==
    IF memoryAddress = MR_KBSR /\ CheckKey(m.input)
    THEN LET g  == GetChar(m.input)
             m1 == MemSet(MemSet(m.memory, MR_KBSR, Shl(1, 15)), MR_KBDR, U16(g.c + MEMORY_MAX))
         IN  { [m |-> [m EXCEPT !.memory = m1, !.input = g.rest, !.polls = @ + 1], v |-> m1[MR_KBSR]] }
    ELSE { [m |-> [m EXCEPT !.memory = MemSet(m.memory, memoryAddress, v)], v |-> v] :
             v \in CellValues(m.memory, memoryAddress) }

\* Read clearing the status register when the data register is read
ReadDataClearsStatus(m, memoryAddress) ==
    IF memoryAddress = MR_KBSR
    THEN IF CheckKey(m.input)
         THEN LET g  == GetChar(m.input)
                  m1 == MemSet(MemSet(m.memory, MR_KBSR, Shl(1, 15)),
                               MR_KBDR, U16(g.c + MEMORY_MAX))
              IN  { [m |-> [m EXCEPT !.memory = m1, !.input = g.rest, !.polls = @ + 1],
                     v |-> m1[memoryAddress]] }
         ELSE LET m1 == MemSet(m.memory, MR_KBSR, 0)
              IN  { [m |-> [m EXCEPT !.memory = m1], v |-> m1[memoryAddress]] }
    ELSE { [m |-> [m EXCEPT !.memory =
                     IF memoryAddress = MR_KBDR
                     THEN MemSet(MemSet(m.memory, memoryAddress, v), MR_KBSR, 0)
                     ELSE MemSet(m.memory, memoryAddress, v)],
            v |-> v] :
             v \in CellValues(m.memory, memoryAddress) }

\* MemoryIO::Read: the set of outcomes [m |-> machine afterwards, v |-> value
\* returned]; more than one when the cell read was never written.
Read(m, memoryAddress) ==
    IF memoryAddress = MR_KBSR
    THEN IF CheckKey(m.input)
         THEN LET g  == GetChar(m.input)
                  m1 == MemSet(MemSet(m.memory, MR_KBSR, Shl(1, 15)),
                               MR_KBDR, U16(g.c + MEMORY_MAX))
              IN  { [m |-> [m EXCEPT !.memory = m1, !.input = g.rest, !.polls = @ + 1],
                     v |-> m1[memoryAddress]] }
         ELSE LET m1 == MemSet(m.memory, MR_KBSR, 0)
              IN  { [m |-> [m EXCEPT !.memory = m1], v |-> m1[memoryAddress]] }
    ELSE { [m |-> [m EXCEPT !.memory = MemSet(m.memory, memoryAddress, v)], v |-> v] :
             v \in CellValues(m.memory, memoryAddress) }

\* Write treating the device registers as read-only
WriteDropsDeviceRegisters(m, address, value) ==
    IF address \in {MR_KBSR, MR_KBDR} THEN m
    ELSE [m EXCEPT !.memory = MemSet(m.memory, address, value)]

\* MemoryIO::Write
Write(m, address, value) ==
    [m EXCEPT !.memory = MemSet(m.memory, address, value)]

----------------------------------------------------------------------------
(* ArithmeticLogicUnit: the instruction handlers.  A handler that reads no  *)
(* memory yields the machine afterwards; one that reads memory yields the  *)
(* set of machines it may leave, one for each value the cells read may     *)
(* hold.  R_PC was already incremented by the fetch.                       *)

SetReg(m, r, v) == [m EXCEPT !.registers[r] = U16(v)]

Flags(m, DR) == [m EXCEPT !.registers = UpdateFlags(m.registers, DR)]

\* ADD updating the flags before it writes the destination register
ADDFlagsFirst(m, instruction) ==
    LET DR  == BitAnd(Shr(instruction, 9), 7)
        SR1 == BitAnd(Shr(instruction, 6), 7)
        Imm == BitAnd(Shr(instruction, 5), 1)
    IN  IF Imm # 0
        THEN LET imm5 == SignExtend(BitAnd(instruction, 31), 5)
             IN  SetReg(Flags(m, DR), DR, m.registers[SR1] + imm5)
        ELSE LET SR2 == BitAnd(instruction, 7)
             IN  SetReg(Flags(m, DR), DR, m.registers[SR1] + m.registers[SR2])

\* ADD without the immediate mode: the second operand is always R[SR2]
ADDRegisterOnly(m, instruction) ==
    LET DR  == BitAnd(Shr(instruction, 9), 7)
        SR1 == BitAnd(Shr(instruction, 6), 7)
        SR2 == BitAnd(instruction, 7)
    IN  Flags(SetReg(m, DR, m.registers[SR1] + m.registers[SR2]), DR)

ADD(m, instruction) ==
    LET DR  == BitAnd(Shr(instruction, 9), 7)
        SR1 == BitAnd(Shr(instruction, 6), 7)
        Imm == BitAnd(Shr(instruction, 5), 1)
    IN  IF Imm # 0
        THEN LET imm5 == SignExtend(BitAnd(instruction, 31), 5)
             IN  Flags(SetReg(m, DR, m.registers[SR1] + imm5), DR)
        ELSE LET SR2 == BitAnd(instruction, 7)
             IN  Flags(SetReg(m, DR, m.registers[SR1] + m.registers[SR2]), DR)

AND(m, instruction) ==
    LET DR  == BitAnd(Shr(instruction, 9), 7)
        SR1 == BitAnd(Shr(instruction, 6), 7)
        Imm == BitAnd(Shr(instruction, 5), 1)
    IN  IF Imm # 0
        THEN LET imm5 == SignExtend(BitAnd(instruction, 31), 5)
             IN  Flags(SetReg(m, DR, BitAnd(m.registers[SR1], imm5)), DR)
        ELSE LET SR2 == BitAnd(instruction, 7)
             IN  Flags(SetReg(m, DR, BitAnd(m.registers[SR1], m.registers[SR2])), DR)

NOT(m, instruction) ==
    LET DR  == BitAnd(Shr(instruction, 9), 7)
        SR1 == BitAnd(Shr(instruction, 6), 7)
    IN  Flags(SetReg(m, DR, BitNot16(m.registers[SR1])), DR)

\* BR taking the branch whatever the flags are
BRIgnoresFlags(m, instruction) ==
    LET pcOffset == SignExtend(BitAnd(instruction, 511), 9)
    IN  SetReg(m, R_PC, m.registers[R_PC] + pcOffset)

BR(m, instruction) ==
    LET pcOffset      == SignExtend(BitAnd(instruction, 511), 9)
        conditionFlag == BitAnd(Shr(instruction, 9), 7)
    IN  IF BitAnd(conditionFlag, m.registers[R_COND]) # 0
        THEN SetReg(m, R_PC, m.registers[R_PC] + pcOffset)
        ELSE m

JMP(m, instruction) ==
    LET SR1 == BitAnd(Shr(instruction, 6), 7)
    IN  SetReg(m, R_PC, m.registers[SR1])

\* JSR reading the base register before it writes R7
JSRReadsBaseFirst(m, instruction) ==
    LET longFlag == BitAnd(Shr(instruction, 11), 1)
        m1       == SetReg(m, R_7, m.registers[R_PC])
    IN  IF longFlag # 0
        THEN LET longPCOffset == SignExtend(BitAnd(instruction, 2047), 11)
             IN  SetReg(m1, R_PC, m1.registers[R_PC] + longPCOffset)
        ELSE LET SR1 == BitAnd(Shr(instruction, 6), 7)
             IN  SetReg(m1, R_PC, m.registers[SR1])

JSR(m, instruction) ==
    LET longFlag == BitAnd(Shr(instruction, 11), 1)
        m1       == SetReg(m, R_7, m.registers[R_PC])
    IN  IF longFlag # 0
        THEN LET longPCOffset == SignExtend(BitAnd(instruction, 2047), 11)
             IN  SetReg(m1, R_PC, m1.registers[R_PC] + longPCOffset)
        ELSE LET SR1 == BitAnd(Shr(instruction, 6), 7)
             IN  SetReg(m1, R_PC, m1.registers[SR1])

LD(m, instruction) ==
    LET DR       == BitAnd(Shr(instruction, 9), 7)
        pcOffset == SignExtend(BitAnd(instruction, 511), 9)
    IN  { Flags(SetReg(r.m, DR, r.v), DR) :
            r \in Read(m, U16(m.registers[R_PC] + pcOffset)) }

\* LDR taking offset6 as an unsigned number
LDRZeroExtends(m, instruction) ==
    LET DR     == BitAnd(Shr(instruction, 9), 7)
        SR1    == BitAnd(Shr(instruction, 6), 7)
        offset == BitAnd(instruction, 63)
    IN  { Flags(SetReg(r.m, DR, r.v), DR) :
            r \in Read(m, U16(m.registers[SR1] + offset)) }

LDR(m, instruction) ==
    LET DR     == BitAnd(Shr(instruction, 9), 7)
        SR1    == BitAnd(Shr(instruction, 6), 7)
        offset == SignExtend(BitAnd(instruction, 63), 6)
    IN  { Flags(SetReg(r.m, DR, r.v), DR) :
            r \in Read(m, U16(m.registers[SR1] + offset)) }

\* LEA adding the offset to the address the instruction was fetched from
LEAFromFetchAddress(m, instruction) ==
    LET DR       == BitAnd(Shr(instruction, 9), 7)
        pcOffset == SignExtend(BitAnd(instruction, 511), 9)
    IN  Flags(SetReg(m, DR, m.registers[R_PC] + MEMORY_MAX - 1 + pcOffset), DR)

LEA(m, instruction) ==
    LET DR       == BitAnd(Shr(instruction, 9), 7)
        pcOffset == SignExtend(BitAnd(instruction, 511), 9)
    IN  Flags(SetReg(m, DR, m.registers[R_PC] + pcOffset), DR)

ST(m, instruction) ==
    LET DR       == BitAnd(Shr(instruction, 9), 7)
        pcOffset == SignExtend(BitAnd(instruction, 511), 9)
    IN  Write(m, U16(m.registers[R_PC] + pcOffset), m.registers[DR])

STI(m, instruction) ==
    LET DR       == BitAnd(Shr(instruction, 9), 7)
        pcOffset == SignExtend(BitAnd(instruction, 511), 9)
    IN  { Write(r.m, r.v, r.m.registers[DR]) :
            r \in Read(m, U16(m.registers[R_PC] + pcOffset)) }

\* STR setting the condition flags from the stored register
STRUpdatesFlags(m, instruction) ==
    LET DR     == BitAnd(Shr(instruction, 9), 7)
        SR1    == BitAnd(Shr(instruction, 6), 7)
        offset == SignExtend(BitAnd(instruction, 63), 6)
    IN  Flags(Write(m, U16(m.registers[SR1] + offset), m.registers[DR]), DR)

STR(m, instruction) ==
    LET DR     == BitAnd(Shr(instruction, 9), 7)
        SR1    == BitAnd(Shr(instruction, 6), 7)
        offset == SignExtend(BitAnd(instruction, 63), 6)
    IN  Write(m, U16(m.registers[SR1] + offset), m.registers[DR])

\* LDI taking the second word from the array, not through MemoryIO::Read
LDIReadsArray(m, instruction) ==
    LET DR        == BitAnd(Shr(instruction, 9), 7)
        pc_offset == SignExtend(BitAnd(instruction, 511), 9)
    IN  UNION { { Flags(SetReg([r1.m EXCEPT !.memory = MemSet(@, r1.v, v)], DR, v), DR) :
                    v \in CellValues(r1.m.memory, r1.v) } :
                  r1 \in Read(m, U16(m.registers[R_PC] + pc_offset)) }

LDI(m, instruction) ==
    LET DR        == BitAnd(Shr(instruction, 9), 7)
        pc_offset == SignExtend(BitAnd(instruction, 511), 9)
    IN  UNION { { Flags(SetReg(r2.m, DR, r2.v), DR) : r2 \in Read(r1.m, r1.v) } :
                  r1 \in Read(m, U16(m.registers[R_PC] + pc_offset)) }

----------------------------------------------------------------------------
(* Trap: the trap services *)

\* putc(c, stdout): the byte written
Put(m, c) == [m EXCEPT !.output = Append(@, c % 256)]

PutAll(m, str) == [m EXCEPT !.output = @ \o str]

\* `char` is a signed 8-bit type on the Windows builds this code targets:
\* the value of (char)x as an int
CharIsSigned == TRUE

ToChar(x) ==
    LET b == x % 256
    IN  IF CharIsSigned /\ b >= 128 THEN b - 256 ELSE b

\* GETC looking at the next character without taking it
GETCPeeks(m) ==
    LET g == GetChar(m.input)
    IN  Flags(SetReg(m, R_0, g.c + MEMORY_MAX), R_0)

GETC(m) ==
    LET g == GetChar(m.input)
    IN  Flags(SetReg([m EXCEPT !.input = g.rest], R_0, g.c + MEMORY_MAX), R_0)

OUTC(m) == Put(m, ToChar(m.registers[R_0]) + 256)

\* the loop of PUTS from the word at index c on: the machines it may leave.
\* A word past the end of CPU::memory is outside the array; what is read
\* there is not defined, and the loop is cut after one such word.
RECURSIVE PutsLoop(_, _, _)
PutsLoop(m, c, fuel) ==
    IF c >= MEMORY_MAX
    THEN { [m EXCEPT !.oob = TRUE], Put([m EXCEPT !.oob = TRUE], 1) }
    ELSE UNION {
           LET m1 == [m EXCEPT !.memory = MemSet(@, c, w)]
           IN  IF w = 0 THEN {m1}
               ELSE IF fuel = 0 THEN {}
               ELSE PutsLoop(Put(m1, ToChar(w) + 256), c + 1, fuel - 1)
           : w \in CellValues(m.memory, c) }

RECURSIVE PutspLoop(_, _, _)
PutspLoop(m, c, fuel) ==
    IF c >= MEMORY_MAX
    THEN { [m EXCEPT !.oob = TRUE], Put([m EXCEPT !.oob = TRUE], 1) }
    ELSE UNION {
           LET m1    == [m EXCEPT !.memory = MemSet(@, c, w)]
               char1 == ToChar(BitAnd(w, 255))
               char2 == ToChar(Shr(w, 8))
               m2    == Put(m1, char1 + 256)
               m3    == IF char2 # 0 THEN Put(m2, char2 + 256) ELSE m2
           IN  IF w = 0 THEN {m1}
               ELSE IF fuel = 0 THEN {}
               ELSE PutspLoop(m3, c + 1, fuel - 1)
           : w \in CellValues(m.memory, c) }

\* the longest string PUTS and PUTSP are followed through
MaxString == 3

PUTS(m) == PutsLoop(m, m.registers[R_0], MaxString)

INC(m) ==
    LET m1 == PutAll(m, <<69, 110, 116, 101, 114, 32, 97, 32, 99, 104, 97, 114,
                          97, 99, 116, 101, 114, 58, 32>>)
        g  == GetChar(m1.input)
        c  == ToChar(g.c + 256)
        m2 == Put([m1 EXCEPT !.input = g.rest], c + 256)
    IN  Flags(SetReg(m2, R_0, c + MEMORY_MAX), R_0)

\* PUTSP writing one byte for each word, as PUTS does
PUTSPLowBytesOnly(m) == PutsLoop(m, m.registers[R_0], MaxString)

PUTSP(m) == PutspLoop(m, m.registers[R_0], MaxString)

HALT(m) == [PutAll(m, <<72, 65, 76, 84, 10>>) EXCEPT !.running = 0]

\* Proxy halting the machine on a vector it does not know
ProxyUnknownHalts(m, instruction) ==
    LET m1 == SetReg(m, R_7, m.registers[R_PC])
        v  == BitAnd(instruction, 255)
    IN  IF v = TRAP_GETC THEN {GETC(m1)}
        ELSE IF v = TRAP_OUT THEN {OUTC(m1)}
        ELSE IF v = TRAP_PUTS THEN PUTS(m1)
        ELSE IF v = TRAP_IN THEN {INC(m1)}
        ELSE IF v = TRAP_PUTSP THEN PUTSP(m1)
        ELSE {HALT(m1)}

Proxy(m, instruction) ==
    LET m1 == SetReg(m, R_7, m.registers[R_PC])
        v  == BitAnd(instruction, 255)
    IN  IF v = TRAP_GETC THEN {GETC(m1)}
        ELSE IF v = TRAP_OUT THEN {OUTC(m1)}
        ELSE IF v = TRAP_PUTS THEN PUTS(m1)
        ELSE IF v = TRAP_IN THEN {INC(m1)}
        ELSE IF v = TRAP_PUTSP THEN PUTSP(m1)
        ELSE IF v = TRAP_HALT THEN {HALT(m1)}
        ELSE {m1}

----------------------------------------------------------------------------
(* CPU::ReadImageFile and CPU::ReadImage.  A file is its sequence of bytes;  *)
(* fread stores them in the order of the host, which is little-endian.     *)

Min(a, b) == IF a < b THEN a ELSE b

\* the uint16_t that fread leaves for the two bytes at positions i, i + 1
FreadWord(file, i) == file[i] + 256 * file[i + 1]

\* a limit of fread that does not depend on the origin
MaxReadWholeMemory(origin) == MEMORY_MAX - 1

\* uint16_t maxRead = MEMORY_MAX - origin
MaxRead(origin) == U16(MEMORY_MAX - origin)

\* The machines the load may leave.  With fewer than two bytes no origin is
\* read and the second fread finds the end of the file.  A last odd byte is
\* a partial element: fread leaves the word after the loaded ones either
\* untouched or with that byte as its low byte.
ReadImageFile(m, file) ==
    IF Len(file) < 2 THEN {m}
    ELSE LET origin  == Swap16(FreadWord(file, 1))
             maxRead == MaxRead(origin)
             read    == Min(maxRead, (Len(file) - 2) \div 2)
             range   == origin .. (origin + read - 1)
             loaded  == [x \in (DOMAIN m.memory) \cup range |->
                            IF x \in range
                            THEN Swap16(FreadWord(file, 2 * (x - origin) + 3))
                            ELSE m.memory[x]]
             partial == read < maxRead /\ (Len(file) - 2) % 2 = 1
             p       == origin + read
         IN  IF partial
             THEN { [m EXCEPT !.memory = loaded] } \cup
                  { [m EXCEPT !.memory =
                        MemSet(loaded, p, 256 * Shr(old, 8) + file[Len(file)])] :
                      old \in CellValues(loaded, p) }
             ELSE { [m EXCEPT !.memory = loaded] }

\* ReadImage reporting success for a file that cannot be opened
ReadImageIgnoresFailure(m, image) ==
    IF ~image.opens THEN { [m |-> m, ok |-> 1] }
    ELSE { [m |-> m1, ok |-> 1] : m1 \in ReadImageFile(m, image.bytes) }

\* CPU::ReadImage: 0 and the machine unchanged when the file cannot be opened
ReadImage(m, image) ==
    IF ~image.opens THEN { [m |-> m, ok |-> 0] }
    ELSE { [m |-> m1, ok |-> 1] : m1 \in ReadImageFile(m, image.bytes) }

----------------------------------------------------------------------------
(* Inputs of a run: the command line, the image files, the keys typed, and  *)
(* what the unset registers R0..R7 hold.                                   *)

\* the bytes of an image file with this origin and these words
ImageBytes(origin, words) ==
    <<Shr(origin, 8), origin % 256>> \o
    [i \in 1 .. 2 * Len(words) |->
        IF i % 2 = 1 THEN Shr(words[(i + 1) \div 2], 8) ELSE words[i \div 2] % 256]

ImageFile(name, origin, words) ==
    [path |-> <<name>>, opens |-> TRUE, bytes |-> ImageBytes(origin, words)]

MissingFile == [path |-> <<120>>, opens |-> FALSE, bytes |-> <<>>]

\* one-instruction programs at the start address
Instructions ==
    { \h147F, \h127F, \h1042,           \* ADD R2,R1,#-1; ADD R1,R1,#-1; ADD R0,R1,R2
      \h5AC4, \h5020,                   \* AND R5,R3,R4; AND R0,R0,#0
      \h92BF, \h9FFF,                   \* NOT R1,R2; NOT R7,R7
      \h0402, \h0202, \h0FFF, \h0801, \h0E00,   \* BRz #2; BRp #2; BRnzp #-1; BRn #1; BRnzp #0
      \hC1C0, \hC080, \hC180,           \* JMP R7; JMP R2; JMP R6
      \h4802, \h4FFE, \h41C0, \h40C0,   \* JSR #2; JSR #-2; JSRR R7; JSRR R3
      \h2000, \h23FF,                   \* LD R0,#0; LD R1,#-1
      \h6044, \h64FE, \h6180,           \* LDR R0,R1,#4; LDR R2,R3,#-2; LDR R0,R6,#0
      \hA000, \hA3FF,                   \* LDI R0,#0; LDI R1,#-1
      \hE1FF, \hE600,                   \* LEA R0,#-1; LEA R3,#0
      \h3200, \h3BFF,                   \* ST R1,#0; ST R5,#-1
      \hB200, \h7281, \h7B80,           \* STI R1,#0; STR R1,R2,#1; STR R5,R6,#0
      \hF020, \hF021, \hF022, \hF023, \hF024, \hF025, \hF0FF,   \* the traps
      \h8000, \hD000 }                  \* RTI; RES

\* programs of several words
Programs ==
    { <<\h2000, \h8001>>,               \* LD R0,#0 and its datum
      <<\hA000, MR_KBSR>>,              \* LDI R0,#0 through a pointer to KBSR
      <<\hA000, MR_KBDR>>,
      <<\hB200, MR_KBSR>>,              \* STI R1,#0 through a pointer to KBSR
      <<\hF022, \h0148, \h0069, 0>>,    \* PUTS / PUTSP of the words after it (R0 = 0x3001)
      <<\hF024, \h6948, \h2100, 0>>,
      <<\h927F, \hF025>>,               \* NOT R1,R1; HALT
      <<\hF020, \hF023, \hF025>>,       \* GETC; IN; HALT
      <<\h6180, \h6180>>,               \* LDR R0,R6,#0 twice: two polls when R6 = 0xFE00
      <<\h0FFF>> }                      \* BRnzp #-1: a loop

ImageFiles ==
    { ImageFile(97, PC_START, <<i>>) : i \in Instructions } \cup
    { ImageFile(98, PC_START, w) : w \in Programs }

\* the command lines: none, files that do not open, one image, or two
ArgLists ==
    { <<>>, <<MissingFile>> } \cup
    { <<f>> : f \in ImageFiles } \cup
    { <<ImageFile(99, PC_START, <<\hF025, 65>>), MissingFile>>,
      <<ImageFile(99, PC_START, <<\h2000, 65>>), ImageFile(100, PC_START + 1, <<\hFFFF>>)>>,
      <<ImageFile(101, 0, <<\hF025>>)>>,
      <<ImageFile(102, \hFFFF, <<\h1021, \h1021>>), ImageFile(99, PC_START, <<\hC080>>)>>,
      <<[path |-> <<103>>, opens |-> TRUE, bytes |-> <<48, 0, 240, 37, 7>>]>>,
      <<[path |-> <<104>>, opens |-> TRUE, bytes |-> <<48>>]>>,
      <<ImageFile(99, PC_START, <<\hF025, 65>>), MissingFile,
        ImageFile(100, PC_START + 1, <<\hFFFF>>)>>,
      \* AND R0,R0,#0; ADD R0,R0,#-1; PUTS with 'A' in the last word of memory
      <<ImageFile(102, \hFFFF, <<65>>),
        ImageFile(99, PC_START, <<\h5020, \h103F, \hF022>>)>>,
      \* LD R1,#1; JMP R1 to 0xFDFF, where STI R1,#0 or LDI R1,#0 has its
      \* pointer in KBSR
      <<ImageFile(105, \hFDFF, <<\hB200>>),
        ImageFile(99, PC_START, <<\h2201, \hC040, \hFDFF>>)>>,
      <<ImageFile(106, \hFDFF, <<\hA200>>),
        ImageFile(99, PC_START, <<\h2201, \hC040, \hFDFF>>)>> }

\* the keys typed during the run
Inputs == { <<>>, <<65>>, <<200, 0>> }

\* what R0..R7 hold when the constructor returns
RegInits ==
    { <<0, 0, 0, 0, 0, 0, 0, 0>>,
      <<\h3001, 1, \hFFFF, \h00FF, \h0F0F, \h8000, MR_KBSR, PC_START>>,
      <<\hFFFF, \hFFFE, 1, \h7FFF, MR_KBDR, MR_KBSR, \h3002, \hFFFF>> }

\* the console mode a process starts with
Cooked == {ENABLE_ECHO_INPUT, ENABLE_LINE_INPUT}

\* instructions a run is followed through
MaxSteps == 3

----------------------------------------------------------------------------
(* main and VirtualMachine::RunVirtualMachine *)

NoCall == [op |-> "none"]

\* CPU::CPU with the member initialiser of CPU::running, then OS::OS
Init ==
    /\ \E r \in RegInits :
          registers = [i \in 0 .. (REGISTER_COUNT - 1) |->
                          IF i = R_COND THEN FL_ZERO
                          ELSE IF i = R_PC THEN PC_START
                          ELSE r[i + 1]]
    /\ memory = <<>>
    /\ running = 1
    /\ input \in Inputs
    /\ output = <<>>
    /\ console = Cooked
    /\ os = NewOS
    /\ handler = FALSE
    /\ argv \in ArgLists
    /\ pc = "start"
    /\ exitCode = {}
    /\ steps = 0
    /\ oob = FALSE
    /\ polls = 0
    /\ last = [instruction |-> -1, pre |-> Machine(<<>>, <<>>, 1, <<>>, <<>>, FALSE, 0)]
    /\ call = NoCall

SetMachine(m) ==
    /\ registers' = m.registers
    /\ memory' = m.memory
    /\ running' = m.running
    /\ input' = m.input
    /\ output' = m.output
    /\ oob' = m.oob
    /\ polls' = m.polls

\* argc < 2: the usage message and exit(2)
Usage ==
    /\ pc = "start"
    /\ Len(argv) = 0
    /\ output' = output \o <<108, 99, 51, 32, 91, 105, 109, 97, 103, 101, 45, 102,
                             105, 108, 101, 49, 93, 32, 46, 46, 46, 10>>
    /\ exitCode' = {2}
    /\ pc' = "exited"
    /\ UNCHANGED <<registers, memory, running, input, console, os, handler, argv,
                   steps, oob, polls, last, call>>

\* the images read so far, in the order of the command line
LoadedImages == IF call.op = "ReadImage" THEN call.loaded ELSE <<>>

\* one turn of the loop over the arguments: the image is read, or the failure
\* is reported and the process exits with 1
LoadImage ==
    /\ pc = "start"
    /\ Len(argv) > 0
    /\ \E r \in ReadImage(Cur, Head(argv)) :
          IF r.ok = 0
          THEN /\ output' = output \o
                     <<102, 97, 105, 108, 101, 100, 32, 116, 111, 32, 108, 111, 97,
                       100, 32, 105, 109, 97, 103, 101, 58, 32>> \o Head(argv).path \o <<10>>
               /\ exitCode' = {1}
               /\ pc' = "exited"
               /\ UNCHANGED <<registers, memory, running, input, oob, polls, argv, call>>
          ELSE /\ SetMachine(r.m)
               /\ argv' = Tail(argv)
               /\ pc' = IF Len(argv) = 1 THEN "signal" ELSE "start"
               /\ call' = [op |-> "ReadImage", loaded |-> Append(LoadedImages, Head(argv))]
               /\ UNCHANGED exitCode
    /\ UNCHANGED <<console, os, handler, steps, last>>

\* signal(SIGINT, OS::HandleInterruptWrapper)
InstallHandler ==
    /\ pc = "signal"
    /\ handler' = TRUE
    /\ pc' = "raw"
    /\ UNCHANGED <<registers, memory, running, input, output, console, os, argv,
                   exitCode, steps, oob, polls, last, call>>

\* osPtr->DisableInputBuffering()
EnterRaw ==
    /\ pc = "raw"
    /\ LET d == DisableInputBuffering(os, console)
       IN  os' = d.os /\ console' = d.console
    /\ pc' = "loop"
    /\ UNCHANGED <<registers, memory, running, input, output, handler, argv,
                   exitCode, steps, oob, polls, last, call>>

IsIllegal(operation) == operation \in {OP_RES, OP_RTI}

\* the switch of the engine on a legal opcode: the machines it may leave
Execute(m, instruction) ==
    LET operation == Shr(instruction, 12)
    IN  CASE operation = OP_ADD  -> {ADD(m, instruction)}
          [] operation = OP_AND  -> {AND(m, instruction)}
          [] operation = OP_NOT  -> {NOT(m, instruction)}
          [] operation = OP_BR   -> {BR(m, instruction)}
          [] operation = OP_JMP  -> {JMP(m, instruction)}
          [] operation = OP_JSR  -> {JSR(m, instruction)}
          [] operation = OP_LD   -> LD(m, instruction)
          [] operation = OP_LDI  -> LDI(m, instruction)
          [] operation = OP_LDR  -> LDR(m, instruction)
          [] operation = OP_LEA  -> {LEA(m, instruction)}
          [] operation = OP_ST   -> {ST(m, instruction)}
          [] operation = OP_STI  -> STI(m, instruction)
          [] operation = OP_STR  -> {STR(m, instruction)}
          [] operation = OP_TRAP -> Proxy(m, instruction)
          [] OTHER -> {}

\* a loop that does not test the run flag
LoopConditionAlways(m) == TRUE

\* while (cpuPtr->running)
LoopCondition(m) == m.running # 0

\* a fetch that does not advance R_PC
FetchNoIncrement(m) == Read(m, m.registers[R_PC])

\* memoryIOPtr->Read(registers[R_PC]++): the outcomes of the read, R_PC incremented
Fetch(m) ==
    { [m |-> SetReg(r.m, R_PC, r.m.registers[R_PC] + 1), v |-> r.v] :
        r \in Read(m, m.registers[R_PC]) }

\* a loop whose default case returns to the fetch instead of calling abort()
StepIgnoresIllegal ==
    /\ pc = "loop"
    /\ LoopCondition(Cur)
    /\ steps < MaxSteps
    /\ \E f \in Fetch(Cur) :
          /\ last' = [instruction |-> f.v, pre |-> Cur]
          /\ IF IsIllegal(Shr(f.v, 12))
             THEN SetMachine(f.m)
             ELSE \E m2 \in Execute(f.m, f.v) : SetMachine(m2)
    /\ pc' = "loop"
    /\ steps' = steps + 1
    /\ UNCHANGED <<console, os, handler, argv, exitCode, call>>

\* one turn of the while loop: fetch, then the handler or abort()
Step ==
    /\ pc = "loop"
    /\ LoopCondition(Cur)
    /\ steps < MaxSteps
    /\ \E f \in Fetch(Cur) :
          /\ last' = [instruction |-> f.v, pre |-> Cur]
          /\ IF IsIllegal(Shr(f.v, 12))
             THEN /\ SetMachine(f.m)
                  /\ pc' = "aborted"
             ELSE /\ \E m2 \in Execute(f.m, f.v) : SetMachine(m2)
                  /\ pc' = "loop"
    /\ steps' = steps + 1
    /\ UNCHANGED <<console, os, handler, argv, exitCode, call>>

\* the loop ends: osPtr->RestoreInputBuffering(), and main returns
LeaveLoop ==
    /\ pc = "loop"
    /\ ~LoopCondition(Cur)
    /\ console' = RestoreInputBuffering(os, console)
    /\ exitCode' = {0}
    /\ pc' = "exited"
    /\ UNCHANGED <<registers, memory, running, input, output, os, handler, argv,
                   steps, oob, polls, last, call>>

\* OS::HandleInterruptWrapper: a new OS object restores the console
HandleInterruptWrapper(con) == RestoreInputBuffering(NewOS, con)

\* SIGINT is delivered while the process runs with the handler installed
Interrupt ==
    /\ handler
    /\ pc \in {"raw", "loop"}
    /\ console' = HandleInterruptWrapper(console)
    /\ output' = Append(output, 10)
    /\ exitCode' = {-2}
    /\ pc' = "exited"
    /\ UNCHANGED <<registers, memory, running, input, os, handler, argv,
                   steps, oob, polls, last, call>>

Next ==
    \/ Usage
    \/ LoadImage
    \/ InstallHandler
    \/ EnterRaw
    \/ Step
    \/ LeaveLoop
    \/ Interrupt

Spec == Init /\ [][Next]_vars

----------------------------------------------------------------------------
(* What the properties speak of *)

\* the sign classification of a 16-bit value: Z, N or P
Classify(v) == IF v = 0 THEN 2 ELSE IF v >= 32768 THEN 4 ELSE 1

\* an instruction was fetched, and it is the last thing the engine did
Executed == last.instruction # -1 /\ pc \in {"loop", "aborted"}

LastOp == last.instruction \div 4096

LastDR == (last.instruction \div 512) % 8

LastVector == last.instruction % 256

\* the address the last instruction was fetched from
LastPC == last.pre.registers[R_PC]

\* the last instruction is a BR whose nzp field meets the flags it found
LastBranchTaken ==
    LastOp = OP_BR /\ BitAnd((last.instruction \div 512) % 8, last.pre.registers[R_COND]) # 0

WritesDR == LastOp \in {OP_ADD, OP_AND, OP_NOT, OP_LD, OP_LDR, OP_LDI, OP_LEA}

ReadsKey == LastOp = OP_TRAP /\ LastVector \in {TRAP_GETC, TRAP_IN}

\* the last instruction wrote R7 and no other general register
WritesOnlyR7 == LastOp = OP_JSR \/ (LastOp = OP_TRAP /\ ~ReadsKey)

----------------------------------------------------------------------------
(* Properties of the whole machine, checked under Spec *)

\* C1: in every reachable state R_COND holds exactly one of P (1), Z (2), N (4).
C1_CondIsOneFlag == registers[R_COND] \in {FL_POSITIVE, FL_ZERO, FL_NEGATIVE}

\* C1 witness: an instruction of a loaded image has written 0xFFFF to its
\* destination register and set the flags to N.
C1_Witness ==
    /\ Executed
    /\ WritesDR
    /\ registers[R_COND] = FL_NEGATIVE
    /\ registers[LastDR] = 65535

\* C2 as stated: after every instruction that writes a general register, the
\* R7 writes of JSR/JSRR and TRAP included, R_COND is the classification of
\* the value written.
C2_FlagsFollowEveryWrite ==
    (Executed /\ (WritesDR \/ ReadsKey \/ WritesOnlyR7)) =>
        /\ registers[R_COND] \in {1, 2, 4}
        /\ registers[R_COND] =
              Classify(registers[IF WritesDR THEN LastDR
                                 ELSE IF ReadsKey THEN R_0 ELSE R_7])

\* C2 as amended: after ADD, AND, NOT, LD, LDR, LDI, LEA (writing R[DR]) and
\* after GETC and IN (writing R0), R_COND is one of 1, 2, 4 and is the
\* classification of the value written; JSR/JSRR and the other traps write
\* R7 and leave R_COND as it was.
C2_FlagsFollowFlaggedWrite ==
    /\ (Executed /\ (WritesDR \/ ReadsKey)) =>
          /\ registers[R_COND] \in {1, 2, 4}
          /\ registers[R_COND] = Classify(registers[IF WritesDR THEN LastDR ELSE R_0])
    /\ (Executed /\ WritesOnlyR7) =>
          registers[R_COND] = last.pre.registers[R_COND]

\* C2 witness: IN has read the byte 200, R0 is negative and so are the flags.
C2_Witness ==
    /\ Executed
    /\ ReadsKey
    /\ LastVector = TRAP_IN
    /\ Len(last.pre.input) > 0
    /\ registers[R_0] >= 32768
    /\ registers[R_COND] = FL_NEGATIVE

\* C3 as stated: every instruction other than a BR that is not taken, JMP,
\* JSR/JSRR and TRAP leaves R_PC at the address it was fetched from plus 1.
C3_PcAdvancesUnlessBranchNotTaken ==
    (Executed /\ LastOp \notin {OP_JMP, OP_JSR, OP_TRAP}
              /\ ~(LastOp = OP_BR /\ ~LastBranchTaken)) =>
        registers[R_PC] = (LastPC + 1) % 65536

\* C3 as amended: every instruction other than a BR that is taken, JMP,
\* JSR/JSRR and TRAP leaves R_PC at the address it was fetched from plus 1,
\* modulo 2^16; this covers a BR that is not taken.
C3_PcAdvancesUnlessBranchTaken ==
    (Executed /\ LastOp \notin {OP_JMP, OP_JSR, OP_TRAP} /\ ~LastBranchTaken) =>
        registers[R_PC] = (LastPC + 1) % 65536

\* C3 witness: an ADD fetched from 0xFFFF has left R_PC at 0.
C3_Witness ==
    /\ Executed
    /\ LastOp = OP_ADD
    /\ LastPC = 65535
    /\ registers[R_PC] = 0

\* C7: the run flag starts true; it changes only from true to false and only
\* in the step that executes TRAP HALT; once it is false no instruction is
\* fetched.
C7_RunFlag ==
    /\ running = 1
    /\ [][ /\ (running' # running) =>
                /\ running = 1
                /\ running' = 0
                /\ steps' = steps + 1
                /\ last'.instruction \div 4096 = OP_TRAP
                /\ last'.instruction % 256 = TRAP_HALT
           /\ (running = 0) => (steps' = steps /\ last' = last /\ registers' = registers)
         ]_vars

\* C7 witness: HALT was executed, the flag is false and the engine has left
\* its loop.
C7_Witness ==
    /\ running = 0
    /\ pc = "exited"
    /\ exitCode = {0}
    /\ LastOp = OP_TRAP
    /\ LastVector = TRAP_HALT

\* C8: when the process has ended on a synchronous path (return after HALT,
\* abort, exit(1), exit(2)) the console is in the mode it had at the start.
C8_ConsoleRestoredOnExit ==
    (pc \in {"exited", "aborted"} /\ exitCode # {-2}) => console = Cooked

\* C9: when the process has ended by SIGINT, the console is in the mode the
\* engine's OS object saved on entering raw mode, a newline was written last
\* and the exit code is -2.
C9_InterruptRestoresConsole ==
    (pc = "exited" /\ exitCode = {-2}) =>
        /\ Len(output) > 0 /\ output[Len(output)] = 10
        /\ (os.hStdin = "STD_INPUT" => console = os.fdwOldMode)

\* C11: no operation of a run reads or writes a word outside CPU::memory:
\* every index used by an instruction, a trap service (PUTS and PUTSP for
\* every R0 and every memory content) and the loader is within 0 .. 0xFFFF.
C11_AccessesInBounds == ~oob

\* the constructor has returned and no image was read yet
Constructed == pc = "start" /\ steps = 0 /\ call = NoCall /\ output = <<>>

\* C12: in the state the constructor leaves, before any image is loaded, every
\* memory word is 0, R_PC is 0x3000, R_COND is Z and the run flag is true.
C12_ConstructedState ==
    Constructed =>
        /\ \A a \in {0, PC_START, PC_START + 1, MR_KBSR, MR_KBDR, MEMORY_MAX - 1} :
              CellValues(memory, a) = {0}
        /\ registers[R_PC] = PC_START
        /\ registers[R_COND] = FL_ZERO
        /\ running = 1

\* "lc3 [image-file1] ...\n"
UsageText ==
    <<108, 99, 51, 32, 91, 105, 109, 97, 103, 101, 45, 102, 105, 108, 101, 49, 93,
      32, 46, 46, 46, 10>>

\* "failed to load image: "
FailedText ==
    <<102, 97, 105, 108, 101, 100, 32, 116, 111, 32, 108, 111, 97, 100, 32, 105,
      109, 97, 103, 101, 58, 32>>

\* an image file as the format describes it: its origin, its words and the
\* addresses they belong to
ImageOrigin(img) == 256 * img.bytes[1] + img.bytes[2]

ImageLen(img) == (Len(img.bytes) - 2) \div 2

ImageWord(img, k) == 256 * img.bytes[2 * k + 3] + img.bytes[2 * k + 4]

ImageRange(img) ==
    IF Len(img.bytes) < 2 THEN {}
    ELSE { a \in ImageOrigin(img) .. (ImageOrigin(img) + ImageLen(img) - 1) : a < 65536 }

\* every word of these images is in memory, unless a later one of them has
\* a word for the same address
InPlace(images) ==
    \A i \in 1 .. Len(images) :
        \A a \in ImageRange(images[i]) :
            (\A j \in (i + 1) .. Len(images) : a \notin ImageRange(images[j])) =>
                /\ a \in DOMAIN memory
                /\ memory[a] = ImageWord(images[i], a - ImageOrigin(images[i]))

\* C13: the outcome follows from the run.  Exit code 2 comes with the usage
\* message and nothing loaded, when no path was given.  Exit code 1 comes with
\* `failed to load image: PATH` at the first image that does not open: the
\* images before it are loaded, those after it are not, no instruction was
\* executed and raw mode was not entered; the engine never starts past an
\* image that does not open.  Exit code 0 comes after HALT, and a run that
\* executed HALT and ended without a signal has exit code 0.
C13_ProcessOutcome ==
    /\ \A i \in 1 .. Len(LoadedImages) : LoadedImages[i].opens
    /\ pc \in {"signal", "raw", "loop", "aborted"} => argv = <<>>
    /\ (pc = "exited" /\ argv = <<>> /\ LoadedImages = <<>>) => exitCode = {2}
    /\ exitCode = {2} =>
          /\ pc = "exited" /\ argv = <<>> /\ LoadedImages = <<>>
          /\ output = UsageText
          /\ memory = <<>>
          /\ steps = 0 /\ last.instruction = -1
          /\ console = Cooked /\ os = NewOS /\ ~handler
    /\ exitCode = {1} =>
          /\ pc = "exited" /\ Len(argv) > 0 /\ ~Head(argv).opens
          /\ output = FailedText \o Head(argv).path \o <<10>>
          /\ InPlace(LoadedImages)
          /\ DOMAIN memory \subseteq UNION { ImageRange(LoadedImages[i]) : i \in 1 .. Len(LoadedImages) }
          /\ steps = 0 /\ last.instruction = -1
          /\ console = Cooked /\ os = NewOS /\ ~handler
    /\ exitCode = {0} =>
          /\ pc = "exited" /\ running = 0
          /\ LastOp = OP_TRAP /\ LastVector = TRAP_HALT
    /\ (pc = "exited" /\ running = 0 /\ exitCode # {-2}) => exitCode = {0}

\* C13 witness: the second of three images did not open; the process ended
\* with 1, the first image is in memory and the third is not.
C13_Witness ==
    /\ exitCode = {1}
    /\ Len(LoadedImages) = 1
    /\ Len(argv) = 2
    /\ ImageRange(argv[2]) = {PC_START + 1}
    /\ memory[PC_START + 1] = 65
    /\ memory[PC_START + 1] # ImageWord(argv[2], 0)

\* memory is as it was before the last instruction, but for the word the
\* fetch read
MemoryKept ==
    /\ DOMAIN memory = (DOMAIN last.pre.memory) \cup {LastPC}
    /\ \A a \in DOMAIN last.pre.memory : memory[a] = last.pre.memory[a]
    /\ memory[LastPC] = last.instruction

\* the last instruction was fetched from KBSR while a character waited: the
\* fetch made the keyboard poll, so KBSR holds 0x8000 (the word fetched),
\* KBDR the character, and the character is taken
FetchPolled ==
    /\ last.pre.input # <<>>
    /\ last.instruction = \h8000
    /\ memory = MemSet(MemSet(last.pre.memory, MR_KBSR, \h8000),
                       MR_KBDR, Head(last.pre.input))
    /\ input = Tail(last.pre.input)

\* C14 as stated: a fetched word with opcode 8 (RTI) or 13 (RES) ends
\* execution at once: R_PC is the incremented address, every other register
\* and every memory word is as before, nothing was written or read, and no
\* step follows; execution ends this way for no other opcode.
C14_IllegalOpcodeChangesNothing ==
    /\ []( /\ (Executed /\ LastOp \in {OP_RTI, OP_RES}) =>
                /\ pc = "aborted"
                /\ registers = [last.pre.registers EXCEPT ![R_PC] = (LastPC + 1) % 65536]
                /\ MemoryKept
                /\ output = last.pre.output
                /\ input = last.pre.input
                /\ running = last.pre.running
           /\ pc = "aborted" => (Executed /\ LastOp \in {OP_RTI, OP_RES}) )
    /\ [][pc # "aborted"]_vars

\* C14: a fetched word with opcode 8 (RTI) or 13 (RES) ends execution at
\* once: R_PC is the incremented address, every other register is as before,
\* nothing was written, and no step follows; memory and the input are as
\* before unless the word was fetched from 0xFE00, where the fetch is a
\* keyboard poll that sets KBSR and KBDR and takes the character.  Execution
\* ends this way for no other opcode.
C14_IllegalOpcodeAborts ==
    /\ []( /\ (Executed /\ LastOp \in {OP_RTI, OP_RES}) =>
                /\ pc = "aborted"
                /\ registers = [last.pre.registers EXCEPT ![R_PC] = (LastPC + 1) % 65536]
                /\ IF LastPC = MR_KBSR
                     THEN FetchPolled
                     ELSE MemoryKept /\ input = last.pre.input
                /\ output = last.pre.output
                /\ running = last.pre.running
           /\ pc = "aborted" => (Executed /\ LastOp \in {OP_RTI, OP_RES}) )
    /\ [][pc # "aborted"]_vars

\* C14 witness: RES was fetched from 0x3000 as the first instruction and
\* execution has ended with R_PC = 0x3001.
C14_Witness ==
    /\ pc = "aborted"
    /\ last.instruction = \hD000
    /\ steps = 1
    /\ registers[R_PC] = PC_START + 1
    /\ output = <<>>

\* C15: a TRAP whose vector is none of 0x20 .. 0x25 sets R7 to the
\* incremented R_PC and nothing else: R0..R6, R_COND and R_PC (incremented),
\* memory, the run flag, the output and the input are as before, and the
\* engine is back in its loop.
C15_UnknownTrapOnlyLinks ==
    (Executed /\ LastOp = OP_TRAP /\ LastVector \notin TRAP_GETC .. TRAP_HALT) =>
        /\ registers = [last.pre.registers EXCEPT ![R_7] = (LastPC + 1) % 65536,
                                                  ![R_PC] = (LastPC + 1) % 65536]
        /\ MemoryKept
        /\ running = last.pre.running
        /\ running = 1
        /\ output = last.pre.output
        /\ input = last.pre.input
        /\ pc = "loop"

\* C15 witness: TRAP 0xFF was executed at 0x3000 with R7 = 0xFFFF and keys
\* waiting; R7 is 0x3001 and the keys are still waiting.
C15_Witness ==
    /\ Executed
    /\ last.instruction = \hF0FF
    /\ last.pre.registers[R_7] = 65535
    /\ registers[R_7] = PC_START + 1
    /\ registers[R_PC] = PC_START + 1
    /\ Len(input) = 2

\* "Enter a character: "
PromptText ==
    <<69, 110, 116, 101, 114, 32, 97, 32, 99, 104, 97, 114, 97, 99, 116, 101, 114,
      58, 32>>

\* the last instruction was GETC or IN and a byte was waiting
KeyRead == Executed /\ ReadsKey /\ Len(last.pre.input) > 0

\* R0 is the byte that was waiting, the flags classify it, the byte was
\* taken from the input; IN wrote the prompt and the byte, GETC nothing
ByteInR0 ==
    LET b == Head(last.pre.input)
    IN  /\ registers[R_0] = b
        /\ registers[R_0] < 256
        /\ registers[R_COND] = Classify(b)
        /\ registers[R_COND] # FL_NEGATIVE
        /\ input = Tail(last.pre.input)
        /\ output = last.pre.output \o
                      (IF LastVector = TRAP_IN THEN PromptText \o <<b>> ELSE <<>>)

\* C18: after GETC and after IN, for every byte b in 0 .. 255 that was
\* waiting, R0 is b with a zero high byte and R_COND classifies it (never N);
\* IN has written the prompt and echoed the byte, GETC has written nothing.
C18_KeyReadsByte == KeyRead => ByteInR0

\* The same for GETC alone, and for IN with a byte below 0x80.
C18_KeyReadsByteUnlessInHigh ==
    (KeyRead /\ ~(LastVector = TRAP_IN /\ Head(last.pre.input) >= 128)) => ByteInR0

\* the characters the last instruction took from the input
Consumed == Len(last.pre.input) - Len(input)

\* the reads of KBSR by the last instruction, its fetch included, that found
\* a key
Polled == polls - last.pre.polls

\* only a turn of the engine loop takes characters or polls the keyboard
OnlyStepsConsume ==
    (input' # input \/ polls' # polls) => (pc = "loop" /\ steps' = steps + 1)

\* after an instruction that polled, KBDR holds the character taken last
LatchedLast == Polled > 0 => memory[MR_KBDR] = last.pre.input[Consumed]

\* C28 as stated: the characters taken from the input are as many as the
\* reads of KBSR that returned 0x8000 plus the GETC and IN traps executed,
\* instruction by instruction and so over the run; what a poll takes
\* replaces what the poll before it left in KBDR.
C28_InputAccounting ==
    /\ [](Executed => /\ Consumed = Polled + (IF ReadsKey THEN 1 ELSE 0)
                      /\ LatchedLast)
    /\ [][OnlyStepsConsume]_vars

\* C28 as amended: a GETC or IN executed at the end of the input takes
\* nothing; the traps counted are those executed while a character waits.
C28_InputAccountingUntilEnd ==
    /\ [](Executed =>
            /\ Consumed = Polled + (IF ReadsKey /\ Len(last.pre.input) > 0 THEN 1 ELSE 0)
            /\ LatchedLast)
    /\ [][OnlyStepsConsume]_vars

\* C28 witness: two LDR of KBSR with the keys 200 and 0 waiting and no read
\* of KBDR between them: both found a key, both keys are taken, and KBDR,
\* which held 200 after the first, holds 0.
C28_Witness ==
    /\ Executed
    /\ last.instruction = \h6180
    /\ steps = 2
    /\ polls = 2
    /\ input = <<>>
    /\ last.pre.memory[MR_KBDR] = 200
    /\ memory[MR_KBDR] = 0
    /\ registers[R_0] = 32768

----------------------------------------------------------------------------
(* The memory bus on its own: any sequence of MemoryIO::Read and            *)
(* MemoryIO::Write while the engine runs.  `call` records the operation     *)
(* applied last, the machine before it, and what was written so far.       *)

BusAddresses == {PC_START, MR_KBSR, MR_KBDR}

BusWords == {0, \h8041}

\* bus operations a run is followed through
MaxBusOps == 4

InitBus ==
    /\ registers = [i \in 0 .. (REGISTER_COUNT - 1) |->
                       IF i = R_COND THEN FL_ZERO ELSE IF i = R_PC THEN PC_START ELSE 0]
    /\ memory = <<>>
    /\ running = 1
    /\ input \in Inputs
    /\ output = <<>>
    /\ console = DisableInputBuffering(NewOS, Cooked).console
    /\ os = DisableInputBuffering(NewOS, Cooked).os
    /\ handler = TRUE
    /\ argv = <<>>
    /\ pc = "loop"
    /\ exitCode = {}
    /\ steps = 0
    /\ oob = FALSE
    /\ polls = 0
    /\ last = [instruction |-> -1, pre |-> Machine(<<>>, <<>>, 1, <<>>, <<>>, FALSE, 0)]
    /\ call = [op |-> "none", n |-> 0, written |-> <<>>, hit |-> FALSE, miss |-> FALSE]

BusWrite ==
    /\ call.n < MaxBusOps
    /\ \E a \in BusAddresses, v \in BusWords :
          /\ SetMachine(Write(Cur, a, v))
          /\ call' = [op |-> "Write", n |-> call.n + 1, address |-> a, value |-> v,
                      pre |-> Cur,
                      written |-> MemSet(call.written, a, v),
                      hit |-> IF a = MR_KBDR THEN FALSE ELSE call.hit,
                      miss |-> IF a = MR_KBDR THEN FALSE ELSE call.miss]
    /\ UNCHANGED <<console, os, handler, argv, pc, exitCode, steps, last>>

BusRead ==
    /\ call.n < MaxBusOps
    /\ \E a \in BusAddresses :
          \E r \in Read(Cur, a) :
             /\ SetMachine(r.m)
             /\ call' = [op |-> "Read", n |-> call.n + 1, address |-> a, value |-> r.v,
                         pre |-> Cur,
                         written |-> call.written,
                         hit |-> call.hit \/ (a = MR_KBSR /\ Len(input) > 0),
                         miss |-> call.miss \/ (a = MR_KBSR /\ Len(input) = 0)]
    /\ UNCHANGED <<console, os, handler, argv, pc, exitCode, steps, last>>

NextBus == BusWrite \/ BusRead

SpecBus == InitBus /\ [][NextBus]_vars

\* the last operation read an address that was written before
ReadOfWritten ==
    /\ call.op = "Read"
    /\ call.address # MR_KBSR
    /\ call.address \in DOMAIN call.written

\* C4 as stated: a Read of an address other than KBSR returns the value of the
\* last Write to it, whatever reads came in between, KBDR included.
C4_ReadReturnsLastWrite ==
    ReadOfWritten => call.value = call.written[call.address]

\* C4 as amended: a Read of an address a other than KBSR returns the value of
\* the last Write to a, for any operations in between that contain no Write to
\* a and, when a is KBDR, no Read of KBSR that found a character.
C4_ReadReturnsLastWriteUnlessLatched ==
    (ReadOfWritten /\ ~(call.address = MR_KBDR /\ call.hit)) =>
        call.value = call.written[call.address]

\* C4 witness: KBDR was written, KBSR was then read and found no key, and the
\* Read of KBDR returned the word written.
C4_Witness ==
    /\ ReadOfWritten
    /\ call.address = MR_KBDR
    /\ call.miss
    /\ ~call.hit
    /\ call.value = \h8041

\* C10: a Read of KBSR with a character waiting stores 0x8000 in KBSR, takes
\* exactly one character, stores it in KBDR with a zero high byte and returns
\* 0x8000; with none waiting it stores 0 in KBSR, takes nothing, leaves KBDR
\* as it was and returns 0.
C10_StatusReadPolls ==
    (call.op = "Read" /\ call.address = MR_KBSR) =>
        IF Len(call.pre.input) > 0
        THEN /\ memory[MR_KBSR] = 32768
             /\ input = Tail(call.pre.input)
             /\ memory[MR_KBDR] = Head(call.pre.input)
             /\ memory[MR_KBDR] < 256
             /\ call.value = 32768
        ELSE /\ memory[MR_KBSR] = 0
             /\ input = call.pre.input
             /\ (MR_KBDR \in DOMAIN memory) = (MR_KBDR \in DOMAIN call.pre.memory)
             /\ (MR_KBDR \in DOMAIN memory => memory[MR_KBDR] = call.pre.memory[MR_KBDR])
             /\ call.value = 0

\* C10 witness: KBSR held 0x8041, no character was waiting, and the Read
\* returned 0 and left KBDR at the word written before.
C10_Witness ==
    /\ call.op = "Read"
    /\ call.address = MR_KBSR
    /\ MR_KBSR \in DOMAIN call.pre.memory
    /\ call.pre.memory[MR_KBSR] = \h8041
    /\ Len(call.pre.input) = 0
    /\ call.value = 0
    /\ MR_KBDR \in DOMAIN memory
    /\ memory[MR_KBDR] = \h8041

\* C27: a Read of an address other than KBSR, KBDR included, returns the
\* word stored there and changes nothing: no memory word, no register, and
\* no character is taken from the input.
C27_PlainReadHasNoEffect ==
    (call.op = "Read" /\ call.address # MR_KBSR) =>
        /\ call.address \in DOMAIN call.pre.memory =>
              call.value = call.pre.memory[call.address]
        /\ memory[call.address] = call.value
        /\ \A a \in DOMAIN call.pre.memory : memory[a] = call.pre.memory[a]
        /\ DOMAIN memory = (DOMAIN call.pre.memory) \cup {call.address}
        /\ registers = call.pre.registers
        /\ input = call.pre.input
        /\ output = call.pre.output
        /\ polls = call.pre.polls

\* C27 witness: after a Read of KBSR took the key 200 while 0 waits behind
\* it, a Read of KBDR has returned 200; KBSR still holds 0x8000 and the 0 is
\* still waiting.
C27_Witness ==
    /\ call.op = "Read"
    /\ call.address = MR_KBDR
    /\ call.value = 200
    /\ call.hit
    /\ MR_KBSR \in DOMAIN memory
    /\ memory[MR_KBSR] = 32768
    /\ input = <<0>>

----------------------------------------------------------------------------
(* The image loader on its own: images of up to MaxImageWords words, at    *)
(* origins at both ends of the address space, loaded one after another     *)
(* into the machine the constructor leaves.  `call` records the last load, *)
(* the machine before it, and the images loaded so far.                    *)

LoadOrigins == {0, PC_START, \hFFFE, \hFFFF}

\* words of an image
MaxImageWords == 2

\* images loaded in one run
MaxLoads == 2

\* the first n words of two streams of distinct words
WordsA(n) == [i \in 1 .. n |-> (\h1234 * i) % 65536]

WordsB(n) == [i \in 1 .. n |-> (\h8000 + \h00FF * i) % 65536]

WordLists == { WordsA(n) : n \in 0 .. MaxImageWords } \cup
             { WordsB(n) : n \in 0 .. MaxImageWords }

InitLoad ==
    /\ registers = [i \in 0 .. (REGISTER_COUNT - 1) |->
                       IF i = R_COND THEN FL_ZERO ELSE IF i = R_PC THEN PC_START ELSE 0]
    /\ memory = <<>>
    /\ running = 1
    /\ input = <<>>
    /\ output = <<>>
    /\ console = Cooked
    /\ os = NewOS
    /\ handler = FALSE
    /\ argv = <<>>
    /\ pc = "start"
    /\ exitCode = {}
    /\ steps = 0
    /\ oob = FALSE
    /\ polls = 0
    /\ last = [instruction |-> -1, pre |-> Machine(<<>>, <<>>, 1, <<>>, <<>>, FALSE, 0)]
    /\ call = [op |-> "none", n |-> 0, history |-> <<>>]

\* ReadImageFile on a well-formed image: an origin and whole words
LoadWhole ==
    /\ call.n < MaxLoads
    /\ \E O \in LoadOrigins, words \in WordLists :
          \E m1 \in ReadImageFile(Cur, ImageBytes(O, words)) :
             /\ SetMachine(m1)
             /\ call' = [op |-> "ReadImageFile", n |-> call.n + 1, origin |-> O,
                         words |-> words, odd |-> FALSE, pre |-> Cur,
                         history |-> Append(call.history,
                                       [origin |-> O, words |-> words, odd |-> FALSE])]
    /\ UNCHANGED <<console, os, handler, argv, pc, exitCode, steps, last>>

\* ReadImageFile on a file that ends in the middle of a word
LoadOdd ==
    /\ call.n < MaxLoads
    /\ \E O \in LoadOrigins, words \in { WordsA(n) : n \in 0 .. MaxImageWords } :
          \E m1 \in ReadImageFile(Cur, ImageBytes(O, words) \o <<7>>) :
             /\ SetMachine(m1)
             /\ call' = [op |-> "ReadImageFile", n |-> call.n + 1, origin |-> O,
                         words |-> words, odd |-> TRUE, pre |-> Cur,
                         history |-> Append(call.history,
                                       [origin |-> O, words |-> words, odd |-> TRUE])]
    /\ UNCHANGED <<console, os, handler, argv, pc, exitCode, steps, last>>

NextLoad == LoadWhole \/ LoadOdd

SpecLoad == InitLoad /\ [][NextLoad]_vars

Loaded == call.op = "ReadImageFile"

\* the image of the last load fits between its origin and the end of memory
Fits == Len(call.words) <= 65536 - call.origin

\* word i of the image is in memory at origin + i
WordsInPlace ==
    \A i \in 0 .. (Len(call.words) - 1) :
        /\ (call.origin + i) \in DOMAIN memory
        /\ memory[call.origin + i] = call.words[i + 1]

\* C5: after loading an image with origin O, for every O in 0 .. 0xFFFF, and
\* N <= 0x10000 - O words, memory[O + i] is word i for every i < N.
C5_ImageWordsLoaded == (Loaded /\ Fits) => WordsInPlace

\* The same for every origin but 0: there the loader does place the words.
C5_ImageWordsLoadedAboveZero == (Loaded /\ Fits /\ call.origin # 0) => WordsInPlace

\* the addresses the words of an image belong to: from its origin up to the
\* end of memory
Covers(origin, words) == { a \in origin .. (origin + Len(words) - 1) : a < 65536 }

WholeImages == \A i \in 1 .. Len(call.history) : ~call.history[i].odd

\* every address that a loaded image has a word for holds the word of the
\* last such image
LastImageWins ==
    \A i \in 1 .. Len(call.history) :
        LET h == call.history[i]
        IN  \A a \in Covers(h.origin, h.words) :
               (\A j \in (i + 1) .. Len(call.history) :
                    a \notin Covers(call.history[j].origin, call.history[j].words)) =>
                  /\ a \in DOMAIN memory
                  /\ memory[a] = h.words[a - h.origin + 1]

\* C17: after loading images one after another, every address covered by at
\* least one of them holds the word of the last image that covers it, and an
\* address covered only by earlier images keeps their word.
C17_LastImageWins == (Loaded /\ WholeImages) => LastImageWins

\* The same for images whose origin is not 0: there the order of loading
\* decides.
C17_LastImageWinsAboveZero ==
    (Loaded /\ WholeImages /\ \A i \in 1 .. Len(call.history) : call.history[i].origin # 0) =>
        LastImageWins

----------------------------------------------------------------------------
(* The handlers that write a destination register on their own: one         *)
(* instruction, already fetched, is executed on registers drawn from        *)
(* AluOperands.  `call` holds the instruction and the machine before it.   *)

AluOperands == {0, 1, \h7FFF, \h8000, \hFFFF}

AluInstructions ==
    { \h127F, \h147F, \h1242, \h1481,   \* ADD R1,R1,#-1; ADD R2,R1,#-1; ADD R1,R1,R2; ADD R2,R2,R1
      \h1630, \h12AF, \h1261,           \* ADD R3,R0,#-16; ADD R1,R2,#15; ADD R1,R1,#1
      \h5242, \h5260, \h54BF, \h5442,   \* AND R1,R1,R2; AND R1,R1,#0; AND R2,R2,#-1; AND R2,R1,R2
      \h927F, \h92BF,                   \* NOT R1,R1; NOT R1,R2
      \hE3FF, \hE400,                   \* LEA R1,#-1; LEA R2,#0
      \h2201, \h6240, \h647F, \hA200 }  \* LD R1,#1; LDR R1,R1,#0; LDR R2,R1,#-1; LDI R1,#0

InitAlu ==
    /\ \E a \in AluOperands, b \in AluOperands :
          registers = [i \in 0 .. (REGISTER_COUNT - 1) |->
                          IF i = R_COND THEN FL_ZERO
                          ELSE IF i = R_PC THEN PC_START + 1
                          ELSE IF i = 1 THEN a
                          ELSE IF i = 2 THEN b
                          ELSE 0]
    /\ memory = <<>>
    /\ running = 1
    /\ input = <<>>
    /\ output = <<>>
    /\ console = DisableInputBuffering(NewOS, Cooked).console
    /\ os = DisableInputBuffering(NewOS, Cooked).os
    /\ handler = TRUE
    /\ argv = <<>>
    /\ pc = "loop"
    /\ exitCode = {}
    /\ steps = 0
    /\ oob = FALSE
    /\ polls = 0
    /\ last = [instruction |-> -1, pre |-> Machine(<<>>, <<>>, 1, <<>>, <<>>, FALSE, 0)]
    /\ \E i \in AluInstructions : call = [op |-> "input", instruction |-> i]

\* the case of the engine's switch for the instruction
AluExecute ==
    /\ call.op = "input"
    /\ \E m2 \in Execute(Cur, call.instruction) :
          /\ SetMachine(m2)
          /\ call' = [op |-> "Execute", instruction |-> call.instruction, pre |-> Cur]
    /\ UNCHANGED <<console, os, handler, argv, pc, exitCode, steps, last>>

NextAlu == AluExecute

SpecAlu == InitAlu /\ [][NextAlu]_vars

AluDone == call.op = "Execute"

AluOp == call.instruction \div 4096

AluDR == (call.instruction \div 512) % 8

AluSR1 == (call.instruction \div 64) % 8

AluSR2 == call.instruction % 8

\* the second operand of ADD as a signed number: R[SR2], or imm5 read as a
\* 5-bit two's-complement number
AluOperand ==
    IF (call.instruction \div 32) % 2 = 0
    THEN call.pre.registers[AluSR2]
    ELSE IF call.instruction % 32 >= 16
         THEN (call.instruction % 32) - 32
         ELSE call.instruction % 32

\* C19: after ADD, AND, NOT, LD, LDR, LDI and LEA, R_COND is the
\* classification of the value R[DR] holds after the write, whatever the
\* registers named, DR equal to a source or base register included.
C19_FlagsOfWrittenValue ==
    (AluDone /\ AluOp \in {OP_ADD, OP_AND, OP_NOT, OP_LD, OP_LDR, OP_LDI, OP_LEA}) =>
        registers[R_COND] =
            (IF registers[AluDR] = 0 THEN FL_ZERO
             ELSE IF registers[AluDR] >= 32768 THEN FL_NEGATIVE
             ELSE FL_POSITIVE)

\* C19 witness: ADD R1, R1, #-1 with R1 = 1 has left R1 = 0 and R_COND = Z.
C19_Witness ==
    /\ AluDone
    /\ call.instruction = \h127F
    /\ call.pre.registers[1] = 1
    /\ registers[1] = 0
    /\ registers[R_COND] = FL_ZERO

\* C20: ADD leaves in R[DR] the sum of R[SR1] and its second operand modulo
\* 2^16, sets R_COND by it, and changes no other general register and no
\* memory word.
C20_AddWraps ==
    (AluDone /\ AluOp = OP_ADD) =>
        /\ registers[AluDR] = (call.pre.registers[AluSR1] + AluOperand + 65536) % 65536
        /\ \A r \in (0 .. 7) \ {AluDR} : registers[r] = call.pre.registers[r]
        /\ registers[R_PC] = call.pre.registers[R_PC]
        /\ memory = call.pre.memory
        /\ registers[R_COND] = Classify((call.pre.registers[AluSR1] + AluOperand + 65536) % 65536)

\* C20 witness: ADD R2, R1, #-1 with R1 = 0 has left R2 = 0xFFFF, R_COND = N
\* and R1 = 0.
C20_Witness ==
    /\ AluDone
    /\ call.instruction = \h147F
    /\ call.pre.registers[1] = 0
    /\ call.pre.registers[2] = 1
    /\ registers[2] = 65535
    /\ registers[1] = 0
    /\ registers[R_COND] = FL_NEGATIVE

----------------------------------------------------------------------------
(* ArithmeticLogicUnit::SignExtend on its own *)

\* the largest field value tried; fields are at most 11 bits wide
MaxField == 4095

SextInputs == (0 .. MaxField) \cup {\h8000, \hFFF0, \hFFFF, \hF7FF, \hAAAA}

Widths == {5, 6, 9, 11}

InitSext ==
    /\ registers = [i \in 0 .. (REGISTER_COUNT - 1) |->
                       IF i = R_COND THEN FL_ZERO ELSE IF i = R_PC THEN PC_START ELSE 0]
    /\ memory = <<>>
    /\ running = 1
    /\ input = <<>>
    /\ output = <<>>
    /\ console = Cooked
    /\ os = NewOS
    /\ handler = FALSE
    /\ argv = <<>>
    /\ pc = "start"
    /\ exitCode = {}
    /\ steps = 0
    /\ oob = FALSE
    /\ polls = 0
    /\ last = [instruction |-> -1, pre |-> Machine(<<>>, <<>>, 1, <<>>, <<>>, FALSE, 0)]
    /\ \E v \in SextInputs, w \in Widths :
          call = [op |-> "input", v |-> v, w |-> w, result |-> 0]

\* the handlers' use: SignExtend(instruction & mask, width)
ApplySignExtend ==
    /\ call.op = "input"
    /\ call' = [call EXCEPT !.op = "SignExtend",
                            !.result = SignExtend(BitAnd(call.v, 2 ^ call.w - 1), call.w)]
    /\ UNCHANGED <<registers, memory, running, input, output, console, os, handler,
                   argv, pc, exitCode, steps, oob, polls, last>>

NextSext == ApplySignExtend

SpecSext == InitSext /\ [][NextSext]_vars

Bit(x, i) == (x \div (2 ^ i)) % 2

\* a 16-bit word read as a two's-complement number
Signed16(x) == IF x >= 32768 THEN x - 65536 ELSE x

\* the low w bits of v read as a w-bit two's-complement number
SignedField(v, w) ==
    LET f == v % (2 ^ w)
    IN  IF f >= 2 ^ (w - 1) THEN f - 2 ^ w ELSE f

\* C6: for every 16-bit v and every width w in {5, 6, 9, 11},
\* SignExtend(v & (2^w - 1), w) has bits 0 .. w-1 of v unchanged and bits
\* w .. 15 equal to bit w-1, and so encodes the w-bit signed value of the low
\* w bits of v.
C6_SignExtendFillsSignBit ==
    (call.op = "SignExtend") =>
        /\ call.result \in 0 .. 65535
        /\ \A i \in 0 .. 15 :
              Bit(call.result, i) = IF i < call.w THEN Bit(call.v, i) ELSE Bit(call.v, call.w - 1)
        /\ Signed16(call.result) = SignedField(call.v, call.w)

\* C6 witness: imm5 = 0b10000 was extended to 0xFFF0.
C6_Witness ==
    /\ call.op = "SignExtend"
    /\ call.v = 16
    /\ call.w = 5
    /\ call.result = \hFFF0

----------------------------------------------------------------------------
(* One turn of the engine loop on its own: the loop is running, R_PC is at  *)
(* the start address or at either end of memory, the word there is one of  *)
(* StepInstructions, the flags are any of the three, and the turn fetches   *)
(* and executes that word.                                                  *)

StepPCs == {PC_START, \hFFFF, \hFFFE, 0, \hFDFF}

\* R0 .. R7 before the turn
StepRegisters ==
    { <<\h00AB, \hFFFE, \hFFFF, 1, \h0F0F, \h8000, MR_KBSR, \h4000>>,
      <<\h3001, 1, \hFFFF, \h00FF, \h0F0F, \h8000, MR_KBSR, PC_START>> }

StepInstructions ==
    Instructions \cup
    { \h0002, \h0900, \h0E01,           \* BR with nzp = 0, #2; BRn #-256; BRnzp #1
      \h2001, \h2100, \h33FF, \h3201,   \* LD R0,#1; LD R0,#-256; ST R1,#-1; ST R1,#1
      \hA001, \hB3FF, \hBA00,           \* LDI R0,#1; STI R1,#-1; STI R5,#0
      \hE0FF, \hE301,                   \* LEA R0,#255; LEA R1,#-255
      \h6180, \h7180, \h76FE, \h7044,   \* LDR R0,R6,#0; STR R0,R6,#0; STR R3,R3,#-2; STR R0,R1,#4
      \h4C00, \h4080 }                  \* JSR #-1024; JSRR R2

\* the words after the instruction: none written, or a pointer to 0x4000,
\* where 0xBEEF is stored
StepData == { <<>>, <<\h4000>> }

InitStep ==
    /\ \E r \in StepRegisters, a \in StepPCs, f \in {FL_POSITIVE, FL_ZERO, FL_NEGATIVE},
          i \in StepInstructions, d \in StepData :
          /\ registers = [k \in 0 .. (REGISTER_COUNT - 1) |->
                             IF k = R_COND THEN f
                             ELSE IF k = R_PC THEN a
                             ELSE r[k + 1]]
          /\ memory = MemSet([x \in {(a + k) % MEMORY_MAX : k \in 1 .. Len(d)} |->
                                 d[((x - a + MEMORY_MAX) % MEMORY_MAX)]] @@
                             (IF d = <<>> THEN <<>> ELSE \h4000 :> \hBEEF),
                             a, i)
    /\ running = 1
    /\ input \in Inputs
    /\ output = <<>>
    /\ console = DisableInputBuffering(NewOS, Cooked).console
    /\ os = DisableInputBuffering(NewOS, Cooked).os
    /\ handler = TRUE
    /\ argv = <<>>
    /\ pc = "loop"
    /\ exitCode = {}
    /\ steps = MaxSteps - 1
    /\ oob = FALSE
    /\ polls = 0
    /\ last = [instruction |-> -1, pre |-> Machine(<<>>, <<>>, 1, <<>>, <<>>, FALSE, 0)]
    /\ call = NoCall

NextStep == Step

SpecStep == InitStep /\ [][NextStep]_vars

\* the address the last instruction was fetched from, incremented
NextPC == (LastPC + 1) % 65536

\* the PC-relative address of the last instruction: PCoff9 is read as a
\* 9-bit two's-complement number and added to the incremented address
LastPCRelative == (NextPC + SignedField(last.instruction, 9) + 65536) % 65536

\* the nzp field of the last instruction meets the flags it found
LastNzpMeetsFlags ==
    LET nzp  == (last.instruction \div 512) % 8
        cond == last.pre.registers[R_COND]
    IN  \/ Bit(nzp, 0) = 1 /\ cond = FL_POSITIVE
        \/ Bit(nzp, 1) = 1 /\ cond = FL_ZERO
        \/ Bit(nzp, 2) = 1 /\ cond = FL_NEGATIVE

\* C21: a BR fetched from A leaves R_PC at A + 1 + sext9(PCoff9) modulo 2^16
\* when its nzp field meets R_COND and at A + 1 otherwise, so never branches
\* with nzp = 0 and always with nzp = 7; it changes no other register and no
\* memory.
C21_BranchFollowsFlags ==
    (Executed /\ LastOp = OP_BR) =>
        /\ registers[R_PC] = (IF LastNzpMeetsFlags THEN LastPCRelative ELSE NextPC)
        /\ (last.instruction \div 512) % 8 = 0 => registers[R_PC] = NextPC
        /\ (last.instruction \div 512) % 8 = 7 => registers[R_PC] = LastPCRelative
        /\ \A r \in (0 .. 9) \ {R_PC} : registers[r] = last.pre.registers[r]
        /\ MemoryKept
        /\ input = last.pre.input /\ output = last.pre.output

\* C21 witness: BRn #-256 fetched from address 0 with R_COND = N has left
\* R_PC at 0xFF01.
C21_Witness ==
    /\ Executed
    /\ last.instruction = \h0900
    /\ LastPC = 0
    /\ last.pre.registers[R_COND] = FL_NEGATIVE
    /\ registers[R_PC] = \hFF01

\* C22: JSR/JSRR fetched from A sets R7 to A + 1 and R_PC to
\* A + 1 + sext11(PCoff11) modulo 2^16 when bit 11 is 1, or to R[BR] when it
\* is 0, R[BR] being read after R7 was written: with BR = R7 the target is
\* A + 1.  It changes nothing else.
C22_LinkThenJump ==
    (Executed /\ LastOp = OP_JSR) =>
        LET base == (last.instruction \div 64) % 8
        IN  /\ registers[R_7] = NextPC
            /\ registers[R_PC] =
                 (IF Bit(last.instruction, 11) = 1
                  THEN (NextPC + SignedField(last.instruction, 11) + 65536) % 65536
                  ELSE IF base = R_7 THEN NextPC
                  ELSE last.pre.registers[base])
            /\ \A r \in (0 .. 9) \ {R_7, R_PC} : registers[r] = last.pre.registers[r]
            /\ MemoryKept
            /\ input = last.pre.input /\ output = last.pre.output

\* C22 witness: JSRR R7 fetched from 0x3000 with R7 = 0x4000 has left both
\* R7 and R_PC at 0x3001.
C22_Witness ==
    /\ Executed
    /\ last.instruction = \h41C0
    /\ LastPC = PC_START
    /\ last.pre.registers[R_7] = \h4000
    /\ registers[R_7] = PC_START + 1
    /\ registers[R_PC] = PC_START + 1

\* the cells of memory that are determined now and were not before the last
\* instruction
NewCells == (DOMAIN memory) \ (DOMAIN last.pre.memory)

\* the register field in bits 11 .. 9 of the last instruction: DR of a load,
\* SR of a store
LastSR == LastDR

\* C23: LD, ST, LDI, STI and LEA fetched from A work on the address
\* A + 1 + sext9(PCoff9) modulo 2^16, the offset being added to the
\* incremented PC: LEA leaves that address in R[DR], LD loads the word there,
\* ST stores R[SR] there, LDI and STI take their pointer from there.  This
\* holds for A = 0xFFFF and for sums that pass either end of memory.  A word
\* read at that address is read through the bus, so at 0xFE00 it is the
\* keyboard status after the poll.
C23_PcRelativeAddress ==
    LET EA == LastPCRelative
    IN  /\ (Executed /\ LastOp = OP_LEA) => registers[LastDR] = EA
        /\ (Executed /\ LastOp = OP_LD) =>
              /\ EA \in DOMAIN memory
              /\ registers[LastDR] = memory[EA]
              /\ (EA \in DOMAIN last.pre.memory /\ EA # MR_KBSR) =>
                    memory[EA] = last.pre.memory[EA]
              /\ NewCells \subseteq {EA, MR_KBDR}
        /\ (Executed /\ LastOp = OP_ST) =>
              /\ EA \in DOMAIN memory
              /\ memory[EA] = last.pre.registers[LastSR]
              /\ NewCells \subseteq {EA}
        /\ (Executed /\ LastOp = OP_LDI) =>
              /\ EA \in DOMAIN memory
              /\ (EA \in DOMAIN last.pre.memory /\ EA # MR_KBSR) =>
                    memory[EA] = last.pre.memory[EA]
              /\ memory[EA] \in DOMAIN memory
              /\ registers[LastDR] = memory[memory[EA]]
              /\ NewCells \subseteq {EA, memory[EA], MR_KBSR, MR_KBDR}
        /\ (Executed /\ LastOp = OP_STI) =>
              /\ EA \in DOMAIN memory
              /\ \E p \in {memory[EA], EA} :
                    /\ (EA \in DOMAIN last.pre.memory /\ EA # MR_KBSR) =>
                          p = last.pre.memory[EA]
                    /\ p # EA => memory[EA] = p
                    /\ p \in DOMAIN memory
                    /\ memory[p] = last.pre.registers[LastSR]
                    /\ NewCells \subseteq
                          {EA, p} \cup (IF EA = MR_KBSR THEN {MR_KBDR} ELSE {})

\* C23 witness: ST R1, #1 fetched from 0xFFFF has stored R1 at address 1,
\* the incremented PC being 0.
C23_Witness ==
    /\ Executed
    /\ last.instruction = \h3201
    /\ LastPC = 65535
    /\ registers[R_PC] = 0
    /\ last.pre.registers[1] = \hFFFE
    /\ DOMAIN memory = {1, 65535}
    /\ memory[1] = \hFFFE

\* the address of the last instruction taken as LDR or STR: the base
\* register plus offset6 read as a 6-bit two's-complement number
LastBaseOffset ==
    (last.pre.registers[(last.instruction \div 64) % 8]
       + SignedField(last.instruction, 6) + 65536) % 65536

\* C24: LDR loads from, and STR stores to, the address R[BR] + sext6(off6)
\* modulo 2^16, for every base and offset, also across the ends of memory.
C24_BaseOffsetAddress ==
    LET EA == LastBaseOffset
    IN  /\ (Executed /\ LastOp = OP_LDR) =>
              /\ EA \in DOMAIN memory
              /\ registers[LastDR] = memory[EA]
              /\ (EA \in DOMAIN last.pre.memory /\ EA # MR_KBSR) =>
                    memory[EA] = last.pre.memory[EA]
              /\ NewCells \subseteq (IF EA = MR_KBSR THEN {MR_KBSR, MR_KBDR} ELSE {EA})
        /\ (Executed /\ LastOp = OP_STR) =>
              /\ EA \in DOMAIN memory
              /\ memory[EA] = last.pre.registers[LastSR]
              /\ NewCells \subseteq {EA}

\* C24 witness: LDR R0, R1, #4 with R1 = 0xFFFE has read the word at address
\* 2 into R0.
C24_Witness ==
    /\ Executed
    /\ last.instruction = \h6044
    /\ last.pre.registers[1] = \hFFFE
    /\ NewCells = {2}
    /\ registers[R_0] = memory[2]
    /\ registers[R_0] = 65

\* C24, the other end: STR R3, R3, #-2 with R3 = 1 has stored 1 at 0xFFFF.
C24_WitnessStore ==
    /\ Executed
    /\ last.instruction = \h76FE
    /\ last.pre.registers[3] = 1
    /\ NewCells = {65535}
    /\ memory[65535] = 1

\* C25: LDI reads its pointer at the PC-relative address and then the word
\* the pointer names, both through MemoryIO::Read.  With the pointer 0xFE00
\* it polls the keyboard: R[DR] is 0x8000 and R_COND is N when a character is
\* waiting (and the character is taken into KBDR), R[DR] is 0 and R_COND is Z
\* when none is.  When neither address is KBSR, R[DR] is memory[memory[EA]]
\* and neither memory nor the input changes.
C25_LoadIndirectThroughBus ==
    (Executed /\ LastOp = OP_LDI /\ LastPCRelative # MR_KBSR) =>
        LET EA == LastPCRelative
            p  == memory[EA]
        IN  /\ EA \in DOMAIN memory
            /\ EA \in DOMAIN last.pre.memory => p = last.pre.memory[EA]
            /\ IF p = MR_KBSR
               THEN IF Len(last.pre.input) > 0
                    THEN /\ registers[LastDR] = 32768
                         /\ registers[R_COND] = FL_NEGATIVE
                         /\ input = Tail(last.pre.input)
                         /\ memory[MR_KBDR] = Head(last.pre.input)
                         /\ memory[MR_KBSR] = 32768
                    ELSE /\ registers[LastDR] = 0
                         /\ registers[R_COND] = FL_ZERO
                         /\ input = last.pre.input
                         /\ memory[MR_KBSR] = 0
               ELSE /\ p \in DOMAIN memory
                    /\ registers[LastDR] = memory[p]
                    /\ registers[R_COND] = Classify(memory[p])
                    /\ input = last.pre.input
                    /\ \A a \in DOMAIN last.pre.memory : memory[a] = last.pre.memory[a]
                    /\ NewCells \subseteq {EA, p}
            /\ \A r \in (0 .. 7) \ {LastDR} : registers[r] = last.pre.registers[r]
            /\ registers[R_PC] = NextPC
            /\ output = last.pre.output

\* C25 witness: with memory[0x3001] = 0x4000 and memory[0x4000] = 0xBEEF,
\* LDI R0, #0 fetched from 0x3000 has left R0 = 0xBEEF and R_COND = N, and
\* memory is as it was.
C25_Witness ==
    /\ Executed
    /\ last.instruction = \hA000
    /\ LastPC = PC_START
    /\ registers[R_0] = \hBEEF
    /\ registers[R_COND] = FL_NEGATIVE
    /\ memory = last.pre.memory

\* C25, the keyboard: the pointer was 0xFE00, the key 'A' was waiting, and
\* LDI has left R0 = 0x8000 with 'A' in KBDR.
C25_WitnessPoll ==
    /\ Executed
    /\ LastOp = OP_LDI
    /\ memory[LastPCRelative] = MR_KBSR
    /\ last.pre.input = <<65>>
    /\ input = <<>>
    /\ registers[LastDR] = 32768
    /\ memory[MR_KBDR] = 65

\* the cells that were determined before the last instruction and hold
\* another word now
ChangedCells == {c \in DOMAIN last.pre.memory : memory[c] # last.pre.memory[c]}

\* the last instruction is one that sets no flags: a store, a branch, a jump
\* or one of the traps OUT, PUTS, PUTSP, HALT
LastSetsNoFlags ==
    \/ LastOp \in {OP_ST, OP_STI, OP_STR, OP_BR, OP_JMP, OP_JSR}
    \/ LastOp = OP_TRAP /\ LastVector \in {TRAP_OUT, TRAP_PUTS, TRAP_PUTSP, TRAP_HALT}

\* the registers as the fetch alone leaves them
FetchedRegisters == [last.pre.registers EXCEPT ![R_PC] = NextPC]

\* C29: ST, STI, STR, BR, JMP, JSR/JSRR and the traps OUT, PUTS, PUTSP and
\* HALT leave R_COND as it was.  ST, STI and STR change no register beyond
\* the increment of R_PC by the fetch, and the only word of memory they
\* change is the one at the effective address, which becomes R[SR]; an STI
\* whose pointer is read at 0xFE00 also has the keyboard poll's update of
\* KBSR and KBDR.
C29_StoresAndJumpsKeepFlags ==
    /\ (Executed /\ LastSetsNoFlags) =>
          registers[R_COND] = last.pre.registers[R_COND]
    /\ (Executed /\ LastOp \in {OP_ST, OP_STR}) =>
          LET EA == IF LastOp = OP_ST THEN LastPCRelative ELSE LastBaseOffset
          IN  /\ registers = FetchedRegisters
              /\ EA \in DOMAIN memory
              /\ memory[EA] = last.pre.registers[LastSR]
              /\ ChangedCells \subseteq {EA}
              /\ NewCells \subseteq {EA}
              /\ input = last.pre.input
              /\ output = last.pre.output
    /\ (Executed /\ LastOp = OP_STI) =>
          LET EA   == LastPCRelative
              poll == IF EA = MR_KBSR THEN {MR_KBSR, MR_KBDR} ELSE {}
          IN  /\ registers = FetchedRegisters
              /\ EA \in DOMAIN memory
              /\ \E p \in {memory[EA], EA} :
                    /\ p \in DOMAIN memory
                    /\ memory[p] = last.pre.registers[LastSR]
                    /\ ChangedCells \subseteq {p} \cup poll
                    /\ NewCells \subseteq {EA, p} \cup poll
              /\ EA # MR_KBSR => input = last.pre.input
              /\ output = last.pre.output

\* C29 witness: STI R5, #0 fetched from 0xFDFF has read its pointer at 0xFE00
\* while a character waited: KBSR holds 0x8000, KBDR the character, and the
\* word at 0x8000 is R5; the flags and the other registers are as before.
C29_Witness ==
    /\ Executed
    /\ last.instruction = \hBA00
    /\ LastPC = \hFDFF
    /\ last.pre.input = <<65>>
    /\ input = <<>>
    /\ memory[MR_KBSR] = \h8000
    /\ memory[MR_KBDR] = 65
    /\ memory[\h8000] = last.pre.registers[5]
    /\ registers = FetchedRegisters

\* C29, a store that overwrites a determined word: ST R1, #-1 fetched from
\* 0x3000 has replaced the instruction itself by R1, and nothing else.
C29_WitnessOverwrite ==
    /\ Executed
    /\ last.instruction = \h33FF
    /\ LastPC = PC_START
    /\ ChangedCells = {PC_START}
    /\ NewCells = {}
    /\ memory[PC_START] = last.pre.registers[1]
    /\ registers[R_COND] = last.pre.registers[R_COND]

\* C29, a trap: HALT has stopped the machine with the flags it found.
C29_WitnessTrap ==
    /\ Executed
    /\ last.instruction = \hF025
    /\ running = 0
    /\ last.pre.registers[R_COND] = FL_NEGATIVE
    /\ registers[R_COND] = FL_NEGATIVE


----------------------------------------------------------------------------
(* The string services on their own: Trap::PUTS or Trap::PUTSP is called    *)
(* with R0 at a string of up to MaxString words from StringWords that ends  *)
(* in a zero word, at a cell that was never written, or at the last cell of *)
(* memory.                                                                  *)

\* 'H'; "Hi" packed; a zero low byte under '!'; 0xC8 alone; 0xC8 under 0x80
StringWords == {\h0048, \h6948, \h2100, \h00C8, \h80C8}

RECURSIVE Strings(_)
Strings(n) ==
    IF n = 0 THEN { <<>> }
    ELSE Strings(n - 1) \cup
         { Append(str, w) : str \in { x \in Strings(n - 1) : Len(x) = n - 1 }, w \in StringWords }

StringBase == PC_START

InitPuts ==
    /\ \E str \in Strings(MaxString), r0 \in {StringBase, StringBase + 1, \h00AB, \hFFFF} :
          /\ registers = [k \in 0 .. (REGISTER_COUNT - 1) |->
                             IF k = R_COND THEN FL_ZERO
                             ELSE IF k = R_PC THEN PC_START
                             ELSE IF k = R_0 THEN r0
                             ELSE 0]
          /\ memory = [x \in StringBase .. (StringBase + Len(str)) |->
                          IF x - StringBase < Len(str) THEN str[x - StringBase + 1] ELSE 0]
    /\ running = 1
    /\ input \in {<<>>, <<65>>}
    /\ output = <<>>
    /\ console = DisableInputBuffering(NewOS, Cooked).console
    /\ os = DisableInputBuffering(NewOS, Cooked).os
    /\ handler = TRUE
    /\ argv = <<>>
    /\ pc = "loop"
    /\ exitCode = {}
    /\ steps = 0
    /\ oob = FALSE
    /\ polls = 0
    /\ last = [instruction |-> -1, pre |-> Machine(<<>>, <<>>, 1, <<>>, <<>>, FALSE, 0)]
    /\ call = NoCall

CallPUTS ==
    /\ call = NoCall
    /\ \E m2 \in PUTS(Cur) : SetMachine(m2)
    /\ call' = [op |-> "PUTS", pre |-> Cur]
    /\ UNCHANGED <<console, os, handler, argv, pc, exitCode, steps, last>>

CallPUTSP ==
    /\ call = NoCall
    /\ \E m2 \in PUTSP(Cur) : SetMachine(m2)
    /\ call' = [op |-> "PUTSP", pre |-> Cur]
    /\ UNCHANGED <<console, os, handler, argv, pc, exitCode, steps, last>>

NextPuts == CallPUTS \/ CallPUTSP

SpecPuts == InitPuts /\ [][NextPuts]_vars

\* the low bytes of the words from address a up to the first zero word
RECURSIVE LowBytes(_)
LowBytes(a) ==
    IF memory[a] = 0 THEN <<>>
    ELSE <<memory[a] % 256>> \o LowBytes(a + 1)

\* for each word from address a up to the first zero word, its low byte and
\* then its high byte unless that is zero
RECURSIVE PackedBytes(_)
PackedBytes(a) ==
    IF memory[a] = 0 THEN <<>>
    ELSE <<memory[a] % 256>> \o
         (IF memory[a] \div 256 # 0 THEN <<memory[a] \div 256>> ELSE <<>>) \o
         PackedBytes(a + 1)

\* the service has changed nothing but the output: registers, run flag and
\* input are as before, and so is every word of memory
OnlyOutput ==
    /\ registers = call.pre.registers
    /\ running = call.pre.running
    /\ input = call.pre.input
    /\ \A a \in DOMAIN call.pre.memory : a \in DOMAIN memory /\ memory[a] = call.pre.memory[a]

\* C26: for a string that ends in a zero word, PUTS writes the low byte of
\* each word before the first zero word; PUTSP writes for each such word the
\* low byte and then the high byte unless that is zero, and stops only at a
\* word that is 0 as a whole.  Neither changes a register or memory.
C26_StringOutput ==
    /\ (call.op = "PUTS" /\ ~oob) =>
          /\ output = call.pre.output \o LowBytes(call.pre.registers[R_0])
          /\ OnlyOutput
    /\ (call.op = "PUTSP" /\ ~oob) =>
          /\ output = call.pre.output \o PackedBytes(call.pre.registers[R_0])
          /\ OnlyOutput

\* C26 witness: PUTSP of the words 0x2100, 0x6948, 0 has written the bytes
\* 0, '!', 'H', 'i': the zero low byte of the first word did not stop it.
C26_Witness ==
    /\ call.op = "PUTSP"
    /\ call.pre.registers[R_0] = StringBase
    /\ call.pre.memory = (StringBase :> \h2100) @@ (StringBase + 1 :> \h6948) @@
                         (StringBase + 2 :> 0)
    /\ output = <<0, 33, 72, 105>>
    /\ memory = call.pre.memory

\* C26, PUTS: of the words 0x6948, 0x80C8, 0 it has written 'H' and 0xC8.
C26_WitnessPuts ==
    /\ call.op = "PUTS"
    /\ call.pre.registers[R_0] = StringBase
    /\ call.pre.memory = (StringBase :> \h6948) @@ (StringBase + 1 :> \h80C8) @@
                         (StringBase + 2 :> 0)
    /\ output = <<72, 200>>

====
